---- MODULE Spec2Model ----
(***************************************************************************)
(* Model of cleanup.py: extraction of #define records from header text and *)
(* their fixed-point resolution (resolve_dependencies / evaluate).          *)
(*                                                                         *)
(* Strings are sequences of one-character strings, so that stripping,      *)
(* splitting, regular-expression matching and number parsing are computed  *)
(* character by character as the Python code computes them.                *)
(* A Define record (name, expr) of the input list is identified by its     *)
(* position in `defines`; the work lists `unresolved` and                  *)
(* `still_unresolved` hold positions (the tuples themselves are immutable).*)
(***************************************************************************)
EXTENDS Integers, Sequences, FiniteSets, TLC

VARIABLES
    entry,             \* "main" (extract, then resolve) or "resolve" (resolve_dependencies called on a list)
    pc,                \* position in the program
    lines,             \* the header file's lines (main only)
    line_num,          \* index of the next line to scan
    defines,           \* the list of Define records [name, expr]
    symbols,           \* symbol table: name -> integer
    unresolved,        \* working list (positions in defines)
    resolved_count,    \* size of the working list when the current pass began
    still_unresolved,  \* records that failed in the current pass
    i,                 \* index of the for loops over unresolved
    output,            \* yielded pairs, in order: [name, value, pos, pass]
    stderr,            \* reported records, in order (positions in defines)
    passes             \* number of passes (while-body executions) started

vars == <<entry, pc, lines, line_num, defines, symbols, unresolved,
          resolved_count, still_unresolved, i, output, stderr, passes>>

----------------------------------------------------------------------------
(* Bounds *)

MaxLen == 3      \* longest list handed directly to resolve_dependencies
MaxLines == 2    \* longest header drawn from LinePool
MaxLit == 40     \* literal values 0..MaxLit are formatted and parsed back

----------------------------------------------------------------------------
(* Characters and strings *)

WS == {" ", "\t"}
DecDigits == {"0", "1", "2", "3", "4", "5", "6", "7", "8", "9"}
HexLower == <<"0", "1", "2", "3", "4", "5", "6", "7", "8", "9",
              "a", "b", "c", "d", "e", "f">>
HexUpper == <<"0", "1", "2", "3", "4", "5", "6", "7", "8", "9",
              "A", "B", "C", "D", "E", "F">>
HexDigits == {HexLower[k] : k \in 1..16} \cup {HexUpper[k] : k \in 1..16}

RECURSIVE lstrip(_)
lstrip(s) == IF s # <<>> /\ Head(s) \in WS THEN lstrip(Tail(s)) ELSE s

RECURSIVE rstrip(_)
rstrip(s) ==
    IF s # <<>> /\ s[Len(s)] \in WS THEN rstrip(SubSeq(s, 1, Len(s) - 1)) ELSE s

strip(s) == rstrip(lstrip(s))

startswith(s, p) == Len(s) >= Len(p) /\ SubSeq(s, 1, Len(p)) = p

\* re.sub(r'\s+', ' ', s): every run of whitespace becomes one space
RECURSIVE collapse_ws(_)
collapse_ws(s) ==
    IF s = <<>> THEN <<>>
    ELSE IF Head(s) \in WS THEN <<" ">> \o collapse_ws(lstrip(s))
    ELSE <<Head(s)>> \o collapse_ws(Tail(s))

\* r'^(0x[0-9a-fA-F]+|\d+)$'
NumberRe(s) ==
    \/ /\ Len(s) >= 3
       /\ s[1] = "0"
       /\ s[2] = "x"
       /\ \A k \in 3..Len(s) : s[k] \in HexDigits
    \/ /\ Len(s) >= 1
       /\ \A k \in 1..Len(s) : s[k] \in DecDigits

\* str.isdigit()
isdigit(s) == Len(s) >= 1 /\ \A k \in 1..Len(s) : s[k] \in DecDigits

DigitVal(c) ==
    IF \E k \in 1..16 : HexLower[k] = c
    THEN (CHOOSE k \in 1..16 : HexLower[k] = c) - 1
    ELSE (CHOOSE k \in 1..16 : HexUpper[k] = c) - 1

\* positional accumulation of int(s, base), most significant digit first
RECURSIVE Accumulate(_, _, _)
Accumulate(s, base, acc) ==
    IF s = <<>> THEN acc
    ELSE Accumulate(Tail(s), base, acc * base + DigitVal(Head(s)))

Ok(v) == [ok |-> TRUE, val |-> v]
ValueError == [ok |-> FALSE, val |-> 0]

\* int(s, 16) of a string that starts with 0x / 0X
IntBase16(s) ==
    LET body == SubSeq(s, 3, Len(s))
    IN  IF body # <<>> /\ \A k \in 1..Len(body) : body[k] \in HexDigits
        THEN Ok(Accumulate(body, 16, 0))
        ELSE ValueError

parse_c_value(value_str) ==
    LET s == strip(value_str)
    IN  IF startswith(s, <<"0", "x">>) \/ startswith(s, <<"0", "X">>)
        THEN IntBase16(s)
        ELSE IF isdigit(s) THEN Ok(Accumulate(s, 10, 0))
        ELSE ValueError

\* r'^\(\s*([^+\-]+?)\s*OP\s*([^+\-]+?)\s*\)$' followed by .strip() of both
\* groups: the text between the outer parentheses is X OP Y with X and Y
\* non-empty and free of '+' and '-'.
BinaryRe(expr, op) ==
    LET n == Len(expr)
        inner == SubSeq(expr, 2, n - 1)
        ops == {k \in 1..Len(inner) : inner[k] \in {"+", "-"}}
        k == CHOOSE j \in ops : TRUE
    IN  IF /\ n >= 2
           /\ expr[1] = "("
           /\ expr[n] = ")"
           /\ Cardinality(ops) = 1
           /\ inner[k] = op
           /\ k > 1
           /\ k < Len(inner)
        THEN [m |-> TRUE,
              left |-> strip(SubSeq(inner, 1, k - 1)),
              right |-> strip(SubSeq(inner, k + 1, Len(inner)))]
        ELSE [m |-> FALSE, left |-> <<>>, right |-> <<>>]

\* variant: an unknown symbol counts as 0 (symbols.get(operand, 0))
evaluate_operand_default0(operand, syms) ==
    LET o == strip(operand)
    IN  IF NumberRe(o) THEN parse_c_value(o)
        ELSE IF o \in DOMAIN syms THEN Ok(syms[o])
        ELSE Ok(0)

evaluate_operand(operand, syms) ==
    LET o == strip(operand)
    IN  IF NumberRe(o) THEN parse_c_value(o)
        ELSE IF o \in DOMAIN syms THEN Ok(syms[o])
        ELSE ValueError

evaluate(expr, syms) ==
    LET e == collapse_ws(strip(expr))
        add == BinaryRe(e, "+")
        sub == BinaryRe(e, "-")
    IN  IF NumberRe(e) THEN parse_c_value(e)
        ELSE IF e \in DOMAIN syms THEN Ok(syms[e])
        ELSE IF add.m
        THEN LET l == evaluate_operand(add.left, syms)
                 r == evaluate_operand(add.right, syms)
             IN  IF l.ok /\ r.ok THEN Ok(l.val + r.val) ELSE ValueError
        ELSE IF sub.m
        THEN LET l == evaluate_operand(sub.left, syms)
                 r == evaluate_operand(sub.right, syms)
             IN  IF l.ok /\ r.ok THEN Ok(l.val - r.val) ELSE ValueError
        ELSE ValueError

----------------------------------------------------------------------------
(* Extractor *)

\* str.split(None, maxsplit)
RECURSIVE split(_, _)
split(s, maxsplit) ==
    LET t == lstrip(s)
        stop == IF \E k \in 1..Len(t) : t[k] \in WS
                THEN CHOOSE k \in 1..Len(t) :
                        t[k] \in WS /\ \A j \in 1..(k - 1) : t[j] \notin WS
                ELSE Len(t) + 1
    IN  IF t = <<>> THEN <<>>
        ELSE IF maxsplit = 0 THEN <<t>>
        ELSE <<SubSeq(t, 1, stop - 1)>>
             \o split(SubSeq(t, stop, Len(t)), maxsplit - 1)

\* re.sub(r'//.*$', '', s): cut at the first "//"
strip_comment(s) ==
    LET at == {k \in 1..(Len(s) - 1) : s[k] = "/" /\ s[k + 1] = "/"}
    IN  IF at = {} THEN s
        ELSE SubSeq(s, 1, (CHOOSE k \in at : \A j \in at : k <= j) - 1)

kw_define == <<"#", "d", "e", "f", "i", "n", "e">>
name_min == <<"T", "H", "I", "R", "D", "_", "P", "A", "R", "T", "Y", "_",
              "E", "V", "E", "N", "T", "_", "I", "D", "_", "M", "I", "N">>
prefix_evt == <<"E", "V", "T", "_">>
prefix_cdu == <<"C", "D", "U", "_", "E", "V", "T", "_", "O", "F", "F", "S", "E", "T", "_">>

wanted(const_name) ==
    \/ const_name = name_min
    \/ startswith(const_name, prefix_evt)
    \/ startswith(const_name, prefix_cdu)

\* the records (none or one) one line of the file adds to `defines`
extract_line(raw) ==
    LET line == strip(raw)
        parts == split(line, 2)
    IN  IF startswith(line, kw_define) /\ Len(parts) >= 3 /\ wanted(parts[2])
        THEN <<[name |-> parts[2], expr |-> strip(strip_comment(parts[3]))]>>
        ELSE <<>>

----------------------------------------------------------------------------
(* Inputs *)

\* Define records handed directly to resolve_dependencies
\* A = 0x10
dA == [name |-> <<"A">>, expr |-> <<"0", "x", "1", "0">>]
\* B = (A + 0x5)
dB == [name |-> <<"B">>, expr |-> <<"(", "A", " ", "+", " ", "0", "x", "5", ")">>]
\* C = (B - A)
dC == [name |-> <<"C">>, expr |-> <<"(", "B", " ", "-", " ", "A", ")">>]
\* X = (Y + 1)
dX == [name |-> <<"X">>, expr |-> <<"(", "Y", " ", "+", " ", "1", ")">>]
\* Y = (X + 1)
dY == [name |-> <<"Y">>, expr |-> <<"(", "X", " ", "+", " ", "1", ")">>]
\* A = 7
dA2 == [name |-> <<"A">>, expr |-> <<"7">>]
\* S = S
dS == [name |-> <<"S">>, expr |-> <<"S">>]
\* D = A
dD == [name |-> <<"D">>, expr |-> <<"A">>]
\* U = 0X1F
dU == [name |-> <<"U">>, expr |-> <<"0", "X", "1", "F">>]
\* W = (  A\t+ 012 )
dW == [name |-> <<"W">>, expr |-> <<"(", " ", " ", "A", "\t", "+", " ", "0", "1", "2", " ", ")">>]
\* M = (A + B + C)
dM == [name |-> <<"M">>, expr |-> <<"(", "A", " ", "+", " ", "B", " ", "+", " ", "C", ")">>]
DefinePool == {dA, dB, dC, dX, dY, dA2, dS, dD, dU, dW, dM}

\* Header lines read by main
\* #define THIRD_PARTY_EVENT_ID_MIN 0x00011000
l_min == <<"#", "d", "e", "f", "i", "n", "e", " ", "T", "H", "I", "R", "D", "_", "P", "A", "R", "T", "Y", "_", "E", "V", "E", "N", "T", "_", "I", "D", "_", "M", "I", "N", " ", "0", "x", "0", "0", "0", "1", "1", "0", "0", "0">>
\* #define EVT_FOO (THIRD_PARTY_EVENT_ID_MIN + 0x1)
l_foo == <<"#", "d", "e", "f", "i", "n", "e", " ", "E", "V", "T", "_", "F", "O", "O", " ", "(", "T", "H", "I", "R", "D", "_", "P", "A", "R", "T", "Y", "_", "E", "V", "E", "N", "T", "_", "I", "D", "_", "M", "I", "N", " ", "+", " ", "0", "x", "1", ")">>
\* #define CDU_EVT_OFFSET_BAR 0x2
l_bar == <<"#", "d", "e", "f", "i", "n", "e", " ", "C", "D", "U", "_", "E", "V", "T", "_", "O", "F", "F", "S", "E", "T", "_", "B", "A", "R", " ", "0", "x", "2">>
\* #define EVT_BAZ (EVT_FOO + CDU_EVT_OFFSET_BAR)
l_baz == <<"#", "d", "e", "f", "i", "n", "e", " ", "E", "V", "T", "_", "B", "A", "Z", " ", "(", "E", "V", "T", "_", "F", "O", "O", " ", "+", " ", "C", "D", "U", "_", "E", "V", "T", "_", "O", "F", "F", "S", "E", "T", "_", "B", "A", "R", ")">>
\* #define EVT_X // foo
l_comment_only == <<"#", "d", "e", "f", "i", "n", "e", " ", "E", "V", "T", "_", "X", " ", "/", "/", " ", "f", "o", "o">>
\* #define EVT_X
l_no_value == <<"#", "d", "e", "f", "i", "n", "e", " ", "E", "V", "T", "_", "X">>
\* #define EVT_X 0x100 // foo
l_trailing == <<"#", "d", "e", "f", "i", "n", "e", " ", "E", "V", "T", "_", "X", " ", "0", "x", "1", "0", "0", " ", "/", "/", " ", "f", "o", "o">>
\* #define OTHER 5
l_other == <<"#", "d", "e", "f", "i", "n", "e", " ", "O", "T", "H", "E", "R", " ", "5">>
\* int x;
l_code == <<"i", "n", "t", " ", "x", ";">>
\*   #define\tEVT_Y  (EVT_X - 1)  
l_indent == <<" ", " ", "#", "d", "e", "f", "i", "n", "e", "\t", "E", "V", "T", "_", "Y", " ", " ", "(", "E", "V", "T", "_", "X", " ", "-", " ", "1", ")", " ", " ">>
LinePool == {l_min, l_foo, l_bar, l_baz, l_comment_only, l_no_value, l_trailing, l_other, l_code, l_indent}

\* the four-line header of the end-to-end scenario
Scenario == <<l_min, l_foo, l_bar, l_baz>>

BoundedSeq(S, n) == UNION {[1..k -> S] : k \in 0..n}

----------------------------------------------------------------------------
(* Resolver: the pieces of resolve_dependencies *)

NoSymbols == [n \in {} |-> 0]

\* variant: the progress test is dropped, the loop body runs once
LoopCondOnePass(unres, count) == unres # <<>> /\ count = 0

\* while unresolved and len(unresolved) != resolved_count
LoopCond(unres, count) == unres # <<>> /\ Len(unres) # count

\* variant: the table is replaced by the new entry (symbols = {const_name: value})
BindReplace(syms, const_name, value) == [n \in {const_name} |-> value]

\* variant: the assignment is missing
BindForgotten(syms, const_name, value) == syms

\* symbols[const_name] = value
Bind(syms, const_name, value) ==
    [n \in DOMAIN syms \cup {const_name} |->
        IF n = const_name THEN value ELSE syms[n]]

\* variant: the failed record is not kept for the next pass
ParkDropped(still, pos) == still

\* still_unresolved.append((const_name, value_expr))
Park(still, pos) == Append(still, pos)

AllPositions(defs) == [k \in 1..Len(defs) |-> k]

\* one for loop over the working list, as a function
RECURSIVE ForLoop(_, _, _, _)
ForLoop(defs, unres, syms, still) ==
    IF unres = <<>> THEN [symbols |-> syms, still |-> still]
    ELSE LET p == Head(unres)
             v == evaluate(defs[p].expr, syms)
         IN  IF v.ok
             THEN ForLoop(defs, Tail(unres), Bind(syms, defs[p].name, v.val), still)
             ELSE ForLoop(defs, Tail(unres), syms, Park(still, p))

\* the while loop, as a function
RECURSIVE WhileLoop(_, _, _, _)
WhileLoop(defs, unres, count, syms) ==
    IF LoopCond(unres, count)
    THEN LET r == ForLoop(defs, unres, syms, <<>>)
         IN  WhileLoop(defs, r.still, Len(unres), r.symbols)
    ELSE [symbols |-> syms, unresolved |-> unres]

\* final symbol table and reported records of resolve_dependencies(defs)
resolve_dependencies(defs) == WhileLoop(defs, AllPositions(defs), 0, NoSymbols)

----------------------------------------------------------------------------
(* The program *)

Init ==
    /\ \/ /\ entry = "resolve"
          /\ pc = "call"
          /\ lines = <<>>
          /\ defines \in BoundedSeq(DefinePool, MaxLen)
       \/ /\ entry = "main"
          /\ pc = "extract"
          /\ lines \in BoundedSeq(LinePool, MaxLines) \cup {Scenario}
          /\ defines = <<>>
    /\ line_num = 1
    /\ symbols = NoSymbols
    /\ unresolved = <<>>
    /\ resolved_count = 0
    /\ still_unresolved = <<>>
    /\ i = 1
    /\ output = <<>>
    /\ stderr = <<>>
    /\ passes = 0

\* extract_defines_from_header: one iteration of the loop over the lines
ExtractLine ==
    /\ pc = "extract"
    /\ line_num <= Len(lines)
    /\ defines' = defines \o extract_line(lines[line_num])
    /\ line_num' = line_num + 1
    /\ UNCHANGED <<entry, pc, lines, symbols, unresolved, resolved_count,
                   still_unresolved, i, output, stderr, passes>>

\* extract_defines_from_header returns; main calls resolve_dependencies
ExtractReturn ==
    /\ pc = "extract"
    /\ line_num > Len(lines)
    /\ pc' = "call"
    /\ UNCHANGED <<entry, lines, line_num, defines, symbols, unresolved,
                   resolved_count, still_unresolved, i, output, stderr, passes>>

\* resolve_dependencies: the three initialisations
Call ==
    /\ pc = "call"
    /\ symbols' = NoSymbols
    /\ unresolved' = AllPositions(defines)
    /\ resolved_count' = 0
    /\ pc' = "while"
    /\ UNCHANGED <<entry, lines, line_num, defines, still_unresolved, i,
                   output, stderr, passes>>

\* the while test holds: a pass begins
BeginPass ==
    /\ pc = "while"
    /\ LoopCond(unresolved, resolved_count)
    /\ resolved_count' = Len(unresolved)
    /\ still_unresolved' = <<>>
    /\ i' = 1
    /\ passes' = passes + 1
    /\ pc' = "for"
    /\ UNCHANGED <<entry, lines, line_num, defines, symbols, unresolved,
                   output, stderr>>

\* the while test fails: go on to the report loop
ExitLoop ==
    /\ pc = "while"
    /\ ~LoopCond(unresolved, resolved_count)
    /\ i' = 1
    /\ pc' = "report"
    /\ UNCHANGED <<entry, lines, line_num, defines, symbols, unresolved,
                   resolved_count, still_unresolved, output, stderr, passes>>

\* for body, try branch: evaluate succeeds, bind and yield
Emit ==
    /\ pc = "for"
    /\ i <= Len(unresolved)
    /\ LET d == defines[unresolved[i]]
           v == evaluate(d.expr, symbols)
       IN  /\ v.ok
           /\ symbols' = Bind(symbols, d.name, v.val)
           /\ output' = Append(output, [name |-> d.name, value |-> v.val,
                                        pos |-> unresolved[i], pass |-> passes])
    /\ i' = i + 1
    /\ UNCHANGED <<entry, pc, lines, line_num, defines, unresolved,
                   resolved_count, still_unresolved, stderr, passes>>

\* for body, except branch: evaluate raises ValueError
Except ==
    /\ pc = "for"
    /\ i <= Len(unresolved)
    /\ ~evaluate(defines[unresolved[i]].expr, symbols).ok
    /\ still_unresolved' = Park(still_unresolved, unresolved[i])
    /\ i' = i + 1
    /\ UNCHANGED <<entry, pc, lines, line_num, defines, symbols, unresolved,
                   resolved_count, output, stderr, passes>>

\* unresolved = still_unresolved
EndPass ==
    /\ pc = "for"
    /\ i > Len(unresolved)
    /\ unresolved' = still_unresolved
    /\ pc' = "while"
    /\ UNCHANGED <<entry, lines, line_num, defines, symbols, resolved_count,
                   still_unresolved, i, output, stderr, passes>>

\* the report loop prints one record to stderr
Report ==
    /\ pc = "report"
    /\ i <= Len(unresolved)
    /\ stderr' = Append(stderr, unresolved[i])
    /\ i' = i + 1
    /\ UNCHANGED <<entry, pc, lines, line_num, defines, symbols, unresolved,
                   resolved_count, still_unresolved, output, passes>>

\* the generator is exhausted
Return ==
    /\ pc = "report"
    /\ i > Len(unresolved)
    /\ pc' = "done"
    /\ UNCHANGED <<entry, lines, line_num, defines, symbols, unresolved,
                   resolved_count, still_unresolved, i, output, stderr, passes>>

Next ==
    \/ ExtractLine
    \/ ExtractReturn
    \/ Call
    \/ BeginPass
    \/ ExitLoop
    \/ Emit
    \/ Except
    \/ EndPass
    \/ Report
    \/ Return

Spec == Init /\ [][Next]_vars

TypeOK ==
    /\ entry \in {"main", "resolve"}
    /\ pc \in {"extract", "call", "while", "for", "report", "done"}
    /\ passes \in 0..(Len(defines) + 1)
    /\ \A k \in DOMAIN output : output[k].pos \in 1..Len(defines)

----------------------------------------------------------------------------
(* Vocabulary of the properties *)

Range(f) == {f[k] : k \in DOMAIN f}

EmittedAt(p) == {k \in DOMAIN output : output[k].pos = p}
ReportedAt(p) == {k \in DOMAIN stderr : stderr[k] = p}

DistinctNames(defs) ==
    \A p, q \in DOMAIN defs : defs[p].name = defs[q].name => p = q

NameOnce(defs, n) == Cardinality({p \in DOMAIN defs : defs[p].name = n}) = 1

\* the operands of a normalised expression: both sides of a single + or -,
\* otherwise the expression itself
Operands(expr) ==
    LET e == collapse_ws(strip(expr))
        add == BinaryRe(e, "+")
        sub == BinaryRe(e, "-")
    IN  IF add.m THEN {add.left, add.right}
        ELSE IF sub.m THEN {sub.left, sub.right}
        ELSE {e}

\* the operands that are not numeric literals
IdentOperands(expr) == {o \in Operands(expr) : ~NumberRe(o)}

\* the number of records emitted during pass k
ResolvedInPass(k) == Cardinality({j \in DOMAIN output : output[j].pass = k})

OutputPairs == [k \in DOMAIN output |-> <<output[k].name, output[k].value>>]

----------------------------------------------------------------------------
\* C1: when a record is emitted, every identifier operand of its expression
\* has already been emitted, i.e. appears earlier in the output sequence.
DependenciesEmittedFirst ==
    \A k \in DOMAIN output :
        \A o \in IdentOperands(defines[output[k].pos].expr) :
            \E j \in 1..(k - 1) : output[j].name = o

\* a record with an identifier operand was emitted in a later pass than the first
DependentEmittedLater ==
    \E k \in DOMAIN output :
        /\ output[k].pass >= 2
        /\ IdentOperands(defines[output[k].pos].expr) # {}

----------------------------------------------------------------------------
\* C2: each record (by position) is emitted at most once, reported at most
\* once, never both; when resolution has finished it is exactly one of the two.
ConsumedExactlyOnce ==
    \A p \in DOMAIN defines :
        /\ Cardinality(EmittedAt(p)) + Cardinality(ReportedAt(p)) <= 1
        /\ pc = "done" =>
               Cardinality(EmittedAt(p)) + Cardinality(ReportedAt(p)) = 1

\* a finished resolution that both emitted and reported records
FinishedWithBothKinds ==
    /\ pc = "done"
    /\ output # <<>>
    /\ stderr # <<>>
    /\ passes >= 2

----------------------------------------------------------------------------
\* C3: when resolution has finished, the expression of every reported record
\* still fails to evaluate against the final symbol table.
ReportedStillFail ==
    pc = "done" =>
        \A k \in DOMAIN stderr : ~evaluate(defines[stderr[k]].expr, symbols).ok

\* a record that failed in the first pass was emitted later, and another
\* record was reported
ReportedAfterLateSuccess ==
    /\ pc = "done"
    /\ stderr # <<>>
    /\ \E k \in DOMAIN output : output[k].pass >= 2

----------------------------------------------------------------------------
\* C4: a record that refers to itself, or two records that refer to each
\* other, whose names are defined once in the input, are never emitted, never
\* enter the symbol table, and are reported when resolution has finished.
SelfRef(p) ==
    /\ NameOnce(defines, defines[p].name)
    /\ defines[p].name \in IdentOperands(defines[p].expr)

Mutual(p, q) ==
    /\ p # q
    /\ NameOnce(defines, defines[p].name)
    /\ NameOnce(defines, defines[q].name)
    /\ defines[q].name \in IdentOperands(defines[p].expr)
    /\ defines[p].name \in IdentOperands(defines[q].expr)

Circular(p) == SelfRef(p) \/ \E q \in DOMAIN defines : Mutual(p, q)

CircularNeverResolves ==
    \A p \in DOMAIN defines :
        Circular(p) =>
            /\ EmittedAt(p) = {}
            /\ defines[p].name \notin DOMAIN symbols
            /\ pc = "done" => Cardinality(ReportedAt(p)) = 1

\* a finished resolution of an input holding a circular pair and a
\* self-referential record, all reported
CircularReported ==
    /\ pc = "done"
    /\ \E p, q \in DOMAIN defines :
           /\ Mutual(p, q)
           /\ ReportedAt(p) # {}
           /\ ReportedAt(q) # {}
    /\ \E p \in DOMAIN defines : SelfRef(p) /\ ReportedAt(p) # {}

----------------------------------------------------------------------------
\* C5: for an input with pairwise distinct names, every permutation of the
\* input yields the same final symbol table, the same set of emitted pairs and
\* the same set of reported records; A=0x10, B=(A + 0x5), C=(B - A) gives
\* A=16, B=21, C=5 in every order.
Permuted(defs, f) == [k \in DOMAIN defs |-> defs[f[k]]]

OrderIndependent ==
    (pc = "done" /\ DistinctNames(defines)) =>
        /\ \A f \in Permutations(DOMAIN defines) :
               LET d == Permuted(defines, f)
                   r == resolve_dependencies(d)
               IN  /\ r.symbols = symbols
                   /\ {d[p] : p \in Range(r.unresolved)}
                        = {defines[p] : p \in Range(stderr)}
        /\ Range(OutputPairs) = {<<n, symbols[n]>> : n \in DOMAIN symbols}
        /\ Range(defines) = {dA, dB, dC} =>
               symbols = (<<"A">> :> 16) @@ (<<"B">> :> 21) @@ (<<"C">> :> 5)

\* A, B, C given in reverse dependency order and resolved in three passes
ReverseOrderResolved ==
    /\ pc = "done"
    /\ defines = <<dC, dB, dA>>
    /\ passes = 3
    /\ Len(output) = 3

----------------------------------------------------------------------------
\* C6 as stated: once a name is bound, it stays bound to the same value in
\* every later state, for every input list.
SymbolsNeverOverwritten ==
    [][\A n \in DOMAIN symbols :
          n \in DOMAIN symbols' /\ symbols'[n] = symbols[n]]_vars

\* C6 as amended: a bound name stays bound; its value changes only in a step
\* that emits another record of the same name, which then holds the emitted
\* value; with pairwise distinct names no value ever changes.
SymbolsLastWriteWins ==
    [][\A n \in DOMAIN symbols :
          /\ n \in DOMAIN symbols'
          /\ symbols'[n] # symbols[n] =>
                /\ ~DistinctNames(defines)
                /\ Len(output') = Len(output) + 1
                /\ output'[Len(output')].name = n
                /\ output'[Len(output')].value = symbols'[n]
                /\ \E k \in DOMAIN output :
                      output[k].name = n /\ output[k].value = symbols[n]]_vars

\* a name was emitted twice with different values and the table holds the later one
NameReboundLater ==
    \E j, k \in DOMAIN output :
        /\ j < k
        /\ output[j].name = output[k].name
        /\ output[j].value # output[k].value
        /\ symbols[output[k].name] = output[k].value
        /\ Cardinality(DOMAIN symbols) >= 2

----------------------------------------------------------------------------
\* C7: resolution terminates: every step lowers a rank that is a natural
\* number and is zero exactly when resolution has finished; the loop is left
\* exactly after the first pass that emits nothing or leaves the working list
\* empty (at once for an empty input), every pass that is followed by another
\* one has shrunk the working list, and no more passes are made than there
\* are records.
Sq(x) == x * x

\* an upper bound on the number of steps still to be taken
Rank ==
    LET n == Len(defines)
        u == Len(unresolved)
        r == Len(lines) - line_num + 1
    IN  CASE pc = "extract" -> r + Sq(n + r + 2) + 2
          [] pc = "call" -> Sq(n + 2) + 1
          [] pc = "while" ->
                IF u # 0 /\ u # resolved_count THEN Sq(u + 2) ELSE u + 2
          [] pc = "for" -> (u - i + 1) + 1 + Sq(u + 1)
          [] pc = "report" -> (u - i + 1) + 1
          [] pc = "done" -> 0

Terminates ==
    /\ [](passes <= Len(defines))
    /\ [](Rank >= 0 /\ (Rank = 0 <=> pc = "done"))
    /\ [][/\ Rank' < Rank
          /\ pc = "while" =>
                /\ (pc' = "report") <=>
                      IF passes = 0 THEN defines = <<>>
                      ELSE ResolvedInPass(passes) = 0 \/ unresolved = <<>>
                /\ (pc' = "for" /\ passes >= 1) =>
                      /\ ResolvedInPass(passes) >= 1
                      /\ Len(unresolved') < resolved_count]_vars

\* as many passes as records: three records resolved one per pass
OnePassPerRecord ==
    /\ pc = "done"
    /\ Len(defines) = 3
    /\ passes = 3
    /\ ResolvedInPass(1) = 1
    /\ ResolvedInPass(2) = 1

----------------------------------------------------------------------------
\* C8: every bare literal (0x or 0X followed by hexadecimal digits, or decimal
\* digits) evaluates to its exact value, whatever the symbol table holds.
RECURSIVE Digits(_, _, _)
Digits(n, base, alphabet) ==
    IF n < base THEN <<alphabet[n + 1]>>
    ELSE Digits(n \div base, base, alphabet) \o <<alphabet[(n % base) + 1]>>

LiteralsOf(n) ==
    {<<"0", "x">> \o Digits(n, 16, HexLower),
     <<"0", "x">> \o Digits(n, 16, HexUpper),
     <<"0", "x", "0">> \o Digits(n, 16, HexLower),
     <<"0", "X">> \o Digits(n, 16, HexLower),
     <<"0", "X">> \o Digits(n, 16, HexUpper),
     Digits(n, 10, HexLower),
     <<"0">> \o Digits(n, 10, HexLower)}

LiteralsExact ==
    \A n \in 0..MaxLit :
        \A s \in LiteralsOf(n) : evaluate(s, symbols) = Ok(n)

----------------------------------------------------------------------------
\* C9: the output is ordered by pass and, within a pass, by input position;
\* when names are distinct and every operand is a literal or the name of an
\* earlier record, one pass emits all records in input order; the four-line
\* header yields its four pairs in input order.  A literal operand is one the
\* evaluator's literal pattern accepts: decimal digits, or 0x and hexadecimal
\* digits (the 0X prefix is the subject of C8).
OperandKnown(o, p) ==
    NumberRe(o) \/ \E q \in 1..(p - 1) : defines[q].name = o

InDependencyOrder ==
    /\ DistinctNames(defines)
    /\ \A p \in DOMAIN defines :
           LET e == collapse_ws(strip(defines[p].expr))
           IN  \A o \in Operands(e) : OperandKnown(o, p)

name_foo == split(l_foo, 2)[2]
name_bar == split(l_bar, 2)[2]
name_baz == split(l_baz, 2)[2]

EmittedInResolutionOrder ==
    /\ \A j, k \in DOMAIN output :
           j < k =>
               \/ output[j].pass < output[k].pass
               \/ /\ output[j].pass = output[k].pass
                  /\ output[j].pos < output[k].pos
    /\ (pc = "done" /\ InDependencyOrder) =>
           /\ [k \in DOMAIN output |-> output[k].pos] = AllPositions(defines)
           /\ \A k \in DOMAIN output : output[k].pass = 1
           /\ stderr = <<>>
    /\ (pc = "done" /\ lines = Scenario) =>
           OutputPairs = << <<name_min, 69632>>, <<name_foo, 69633>>,
                            <<name_bar, 2>>, <<name_baz, 69635>> >>

\* the four-line header resolved in a single pass
ScenarioResolved ==
    /\ pc = "done"
    /\ lines = Scenario
    /\ Len(output) = 4
    /\ passes = 1
    /\ InDependencyOrder

----------------------------------------------------------------------------
\* C10: no record produced by the extractor has an empty expression.
ExtractedExprNonEmpty ==
    entry = "main" => \A k \in DOMAIN defines : defines[k].expr # <<>>

====
